---- MODULE Spec2Model ----
(***************************************************************************)
(* dotfiles/logics.py: the per-tool installers (TMux, Vimperator, Gdb,     *)
(* Fvwm2, Git, Zsh, Vim, CommandLineHelper) and the two placement          *)
(* primitives SymLink.run and CopyFile.run, over a filesystem of paths.    *)
(*                                                                         *)
(* A path is a sequence of components; an absolute path starts with "/".   *)
(* The filesystem fs is a function whose domain is the set of paths that   *)
(* have a directory entry (os.path.lexists); an entry is a directory, a    *)
(* regular file with its content, or a symbolic link with its target.      *)
(* Every filesystem call of an installer is one step of its frame, so that *)
(* the same step function gives a run to completion (the program as it is  *)
(* written, single-threaded) and the interleaving of two installers.       *)
(***************************************************************************)
EXTENDS Integers, Sequences, FiniteSets, TLC

VARIABLES
    fs,      \* the filesystem: path -> entry
    opt,     \* Option(dest_dir, overwrite), shared by every installer
    env,     \* what is outside the program: network state, programs on PATH
    sess,    \* the installers of this session, in slot order
    procs,   \* slot -> frame of the run() in progress (or idle / done)
    log,     \* completed runs, oldest first (sequential sessions)
    fs0      \* the filesystem when the session started

vars == <<fs, opt, env, sess, procs, log, fs0>>

-----------------------------------------------------------------------------
(* Bounds of the model *)

\* run() calls in one sequential session
MaxRuns == 2
\* entries already in the destination directory when a sequential session starts
MaxPre == 1
\* entries already in the destination directory when a concurrent session starts
MaxPreConc == 1
\* symbolic links followed before the lookup gives up (ELOOP)
MaxLinks == 3

-----------------------------------------------------------------------------
(* Paths: pathlib.Path *)

NoPath == <<"?">>
LoopPath == <<"?", "ELOOP">>

IsAbsolute(p) == Len(p) > 0 /\ p[1] = "/"

\* pathlib's a / b : an absolute b replaces a
Join(a, b) == IF IsAbsolute(b) THEN b ELSE a \o b

Parent(p) == SubSeq(p, 1, Len(p) - 1)
Basename(p) == p[Len(p)]
Prefixes(p) == {SubSeq(p, 1, k) : k \in 0..Len(p)}
ProperPrefixes(p) == {SubSeq(p, 1, k) : k \in 0..(Len(p) - 1)}

RESOURCES_PATH == <<"/", "pkg", "dotfiles", "resources">>
Resource(name) == Join(RESOURCES_PATH, <<name>>)

TmpDir == <<"/", "tmp">>
\* a faulty variant of TmpPath: a fixed staging file name instead of a fresh one
TmpPathFixedName(s) == Join(TmpDir, <<"tmp_run1">>)

\* tempfile.NamedTemporaryFile: a fresh name under the temp directory; the
\* two slots never draw the same name
TmpPath(s) == Join(TmpDir, <<IF s = 1 THEN "tmp_run1" ELSE "tmp_run2">>)

ExtDir == <<"/", "ext">>
ExtFile == <<"/", "ext", "present">>
ExtMissing == <<"/", "ext", "missing">>

-----------------------------------------------------------------------------
(* Filesystem entries and lookups *)

Dir == [kind |-> "dir", data |-> <<>>, to |-> <<>>]
File(d) == [kind |-> "file", data |-> d, to |-> <<>>]
Link(t) == [kind |-> "link", data |-> <<>>, to |-> t]

Put(fsys, p, e) == [q \in (DOMAIN fsys) \cup {p} |-> IF q = p THEN e ELSE fsys[q]]
Del(fsys, p) == [q \in (DOMAIN fsys) \ {p} |-> fsys[q]]

LExists(fsys, p) == p \in DOMAIN fsys

\* the path a lookup ends at after following the symbolic links at p
RECURSIVE Follow(_, _, _)
Follow(fsys, p, n) ==
    IF LExists(fsys, p) /\ fsys[p].kind = "link"
    THEN IF n = 0 THEN LoopPath ELSE Follow(fsys, fsys[p].to, n - 1)
    ELSE p

Real(fsys, p) == Follow(fsys, p, MaxLinks)

\* Path.exists / is_symlink / is_file / is_dir: all but is_symlink follow links
Exists(fsys, p) == LExists(fsys, Real(fsys, p))
IsSymlink(fsys, p) == LExists(fsys, p) /\ fsys[p].kind = "link"
IsFile(fsys, p) == Exists(fsys, p) /\ fsys[Real(fsys, p)].kind = "file"
IsDir(fsys, p) == Exists(fsys, p) /\ fsys[Real(fsys, p)].kind = "dir"

\* stat().st_size > 0 of a regular file, through links
NonEmptyFile(fsys, p) == IsFile(fsys, p) /\ fsys[Real(fsys, p)].data # <<>>

ParentIsDir(fsys, p) ==
    Len(p) > 0 /\ LExists(fsys, Parent(p)) /\ fsys[Parent(p)].kind = "dir"

\* the result of a filesystem call: the new filesystem, or the error raised
Ok(fsys) == [err |-> "none", fs |-> fsys]
Err(e, fsys) == [err |-> e, fs |-> fsys]

\* open(p, "w") and write: follows links, creates the file, truncates it
WriteFile(fsys, p, d) ==
    LET q == Real(fsys, p) IN
    IF q = LoopPath THEN Err("OSError", fsys)
    ELSE IF LExists(fsys, q) /\ fsys[q].kind = "dir" THEN Err("IsADirectoryError", fsys)
    ELSE IF ~ParentIsDir(fsys, q)
         THEN Err(IF LExists(fsys, Parent(q)) THEN "NotADirectoryError"
                  ELSE "FileNotFoundError", fsys)
    ELSE Ok(Put(fsys, q, File(d)))

\* shutil.copy(src, dst): into dst/basename(src) when dst is a directory
ShutilCopy(fsys, src, dst) ==
    IF ~IsFile(fsys, src) THEN Err("FileNotFoundError", fsys)
    ELSE LET d == IF IsDir(fsys, dst) THEN Join(Real(fsys, dst), <<Basename(src)>>)
                  ELSE dst
         IN WriteFile(fsys, d, fsys[Real(fsys, src)].data)

\* Path.unlink
Unlink(fsys, p) ==
    IF ~LExists(fsys, p) THEN Err("FileNotFoundError", fsys)
    ELSE IF fsys[p].kind = "dir" THEN Err("IsADirectoryError", fsys)
    ELSE Ok(Del(fsys, p))

\* Path.symlink_to
SymlinkTo(fsys, p, target) ==
    IF LExists(fsys, p) THEN Err("FileExistsError", fsys)
    ELSE IF ~ParentIsDir(fsys, p)
         THEN Err(IF LExists(fsys, Parent(p)) THEN "NotADirectoryError"
                  ELSE "FileNotFoundError", fsys)
    ELSE Ok(Put(fsys, p, Link(target)))

\* the directories p and its missing ancestors
WithDirs(fsys, p) ==
    [q \in (DOMAIN fsys) \cup Prefixes(p) |-> IF q \in DOMAIN fsys THEN fsys[q] ELSE Dir]

AncestorsAreDirs(fsys, p) ==
    \A q \in ProperPrefixes(p) : LExists(fsys, q) => fsys[q].kind = "dir"

\* Path.mkdir(parents=True)
MkdirParents(fsys, p) ==
    IF LExists(fsys, p) THEN Err("FileExistsError", fsys)
    ELSE IF ~AncestorsAreDirs(fsys, p) THEN Err("NotADirectoryError", fsys)
    ELSE Ok(WithDirs(fsys, p))

HasChildren(fsys, p) ==
    \E q \in DOMAIN fsys : Len(q) = Len(p) + 1 /\ Parent(q) = p

\* Repo.clone_from(url, p): git clone into a missing path or an empty directory
CloneFrom(fsys, p, net) ==
    IF net # "ok" THEN Err("GitCommandError", fsys)
    ELSE IF LExists(fsys, p) /\ (fsys[p].kind # "dir" \/ HasChildren(fsys, p))
         THEN Err("GitCommandError", fsys)
    ELSE IF ~AncestorsAreDirs(fsys, p) THEN Err("GitCommandError", fsys)
    ELSE Ok(WithDirs(fsys, Join(p, <<".git">>)))

-----------------------------------------------------------------------------
(* The installers: class names, name properties, resource files *)

SymlinkTools == {"tmux", "vimperator", "gdb", "fvwm2"}
Installers == SymlinkTools \cup {"git", "zsh", "vim", "command-line helper"}

\* the programs each run() passes to program_exist
Needs(inst) ==
    CASE inst = "tmux" -> {"tmux", "xsel"}
      [] inst = "vimperator" -> {}
      [] inst = "gdb" -> {"gdb"}
      [] inst = "fvwm2" -> {"fvwm2"}
      [] inst = "git" -> {"git", "git-lfs"}
      [] inst = "zsh" -> {"zsh"}
      [] inst = "vim" -> {"vim"}
      [] inst = "command-line helper" -> {"peco", "fzf", "direnv"}

AllPrograms == UNION {Needs(i) : i \in Installers}

\* the file each simple installer hands to SymLink
SymlinkFile(inst) ==
    CASE inst = "tmux" -> ".tmux.conf"
      [] inst = "vimperator" -> ".vimperatorrc"
      [] inst = "gdb" -> ".gdbinit"
      [] inst = "fvwm2" -> ".fvwm2rc"

\* the wrapper files each installer generates and hands to CopyFile
WrapperFiles(inst) ==
    CASE inst = "git" -> {".gitconfig"}
      [] inst = "zsh" -> {".zshrc", ".zshenv"}
      [] inst = "vim" -> {".vimrc"}
      [] OTHER -> {}

\* the resource files an installer reads
ResourcesOf(inst) ==
    IF inst \in SymlinkTools THEN {SymlinkFile(inst)} ELSE WrapperFiles(inst)

\* the generated content: the template with the resource's path in it
TemplateOf(name) ==
    CASE name = ".gitconfig" -> "GIT_CONFIG_TEMPLATE"
      [] name = ".zshrc" -> "ZSHRC_TEMPLATE"
      [] name = ".zshenv" -> "ZSHENV_TEMPLATE"
      [] name = ".vimrc" -> "execute 'source {}'"

Wrapper(name, res) == <<TemplateOf(name)>> \o res

PlugVimText == <<"plug.vim">>

-----------------------------------------------------------------------------
(* Frames: one run() in progress *)

IdleFrame ==
    [inst |-> "none", pc |-> "idle", name |-> "", res |-> NoPath,
     dst_path |-> NoPath, dst |-> NoPath, tmp |-> NoPath, r |-> "none",
     exc |-> "none", out |-> "none", warn |-> {}, placed |-> {}, before |-> <<>>]

NewFrame(inst, fsys) ==
    [IdleFrame EXCEPT !.inst = inst, !.pc = "checks", !.before = fsys]

Running(f) == f.pc \notin {"idle", "done"}

Finish(f, o) == [f EXCEPT !.pc = "done", !.out = o]

\* an exception: inside a with-block it passes through the block's exit
Raise(f, e) ==
    IF f.tmp # NoPath THEN [f EXCEPT !.exc = e, !.pc = "w_exit"] ELSE Finish(f, e)

\* CopyFile.run returns v to the with-block that called it
Return(f, v) == [f EXCEPT !.r = v, !.pc = "w_exit"]

\* a step's result
To(f, fsys) == [f |-> f, fs |-> fsys]

\* the first wrapper block for `name`
Block(f, name) == [f EXCEPT !.name = name, !.pc = "w_tmp", !.tmp = NoPath,
                            !.r = "none", !.res = NoPath, !.dst = NoPath,
                            !.dst_path = NoPath]

-----------------------------------------------------------------------------
(* program_exist and the head of each run() *)

Checks(f, fsys) ==
    LET w == {<<f.inst, p>> : p \in Needs(f.inst) \ env.progs}
        g == [f EXCEPT !.warn = w]
    IN CASE f.inst \in SymlinkTools ->
                To([g EXCEPT !.name = SymlinkFile(f.inst), !.pc = "sl_assert"], fsys)
         [] f.inst = "git" -> To(Block(g, ".gitconfig"), fsys)
         [] f.inst = "zsh" -> To([g EXCEPT !.pc = "z_cexists"], fsys)
         [] f.inst = "vim" -> To([g EXCEPT !.pc = "v_dexists"], fsys)
         [] f.inst = "command-line helper" -> To(Finish(g, "SUCCESS"), fsys)

-----------------------------------------------------------------------------
(* SymLink.run *)

SlAssert(f, fsys) ==
    LET src == Resource(f.name)
        dst == Join(opt.dest_dir, <<f.name>>)
        g == [f EXCEPT !.res = src, !.dst = dst]
    IN IF Exists(fsys, src) THEN To([g EXCEPT !.pc = "sl_exists"], fsys)
       ELSE To(Raise(g, "AssertionError"), fsys)

\* a faulty variant of SlExists: the existence check never ends the run with SKIP
SlExistsNeverSkips(f, fsys) ==
    IF Exists(fsys, f.dst) /\ opt.overwrite THEN To([f EXCEPT !.pc = "sl_islink"], fsys)
    ELSE To([f EXCEPT !.pc = "sl_link"], fsys)

SlExists(f, fsys) ==
    IF Exists(fsys, f.dst)
    THEN IF opt.overwrite THEN To([f EXCEPT !.pc = "sl_islink"], fsys)
         ELSE To(Finish(f, "SKIP"), fsys)
    ELSE To([f EXCEPT !.pc = "sl_link"], fsys)

SlIsLink(f, fsys) ==
    IF IsSymlink(fsys, f.dst) THEN To([f EXCEPT !.pc = "sl_unlink"], fsys)
    ELSE To([f EXCEPT !.pc = "sl_link"], fsys)

SlUnlink(f, fsys) ==
    LET u == Unlink(fsys, f.dst)
    IN IF u.err = "none" THEN To([f EXCEPT !.pc = "sl_link"], u.fs)
       ELSE To(Raise(f, u.err), fsys)

SlLink(f, fsys) ==
    LET u == SymlinkTo(fsys, f.dst, f.res)
    IN IF u.err = "none"
       THEN To(Finish([f EXCEPT !.placed = @ \cup {[name |-> f.name, dst |-> f.dst]}],
                      "SUCCESS"), u.fs)
       ELSE To(Raise(f, u.err), fsys)

-----------------------------------------------------------------------------
(* The with-block of Git.run, Zsh.run and Vim.run around CopyFile *)

\* tempfile.NamedTemporaryFile(mode="w")
WTmp(s, f, fsys) ==
    To([f EXCEPT !.tmp = TmpPath(s), !.pc = "w_assert"], Put(fsys, TmpPath(s), File(<<>>)))

WAssert(f, fsys) ==
    LET src == Resource(f.name)
        g == [f EXCEPT !.res = src]
    IN IF Exists(fsys, src) THEN To([g EXCEPT !.pc = "w_write"], fsys)
       ELSE To(Raise(g, "AssertionError"), fsys)

\* f.write(template.format(src)); f.flush(); CopyFile(options, f.name, dest_dir / name)
WWrite(f, fsys) ==
    To([f EXCEPT !.dst_path = Join(opt.dest_dir, <<f.name>>), !.pc = "cp_assert"],
       IF LExists(fsys, f.tmp) THEN Put(fsys, f.tmp, File(Wrapper(f.name, f.res)))
       ELSE fsys)

\* a faulty variant of ZshContinues: Zsh.run goes on to .zshenv whatever the first
\* copy returned
ZshContinuesAnyway(f) == f.inst = "zsh" /\ f.name = ".zshrc"

\* Zsh.run goes on to .zshenv only after .zshrc was copied
ZshContinues(f) == f.inst = "zsh" /\ f.name = ".zshrc" /\ f.r = "SUCCESS"

\* what follows the with-block once the temporary file is closed
AfterWith(f) ==
    IF f.exc # "none" THEN Finish(f, f.exc)
    ELSE IF ZshContinues(f) THEN Block(f, ".zshenv")
    ELSE Finish(f, f.r)

\* a faulty variant of WExit: the temporary file is deleted after the copy, not on
\* the way out of an exception
WExitLeaksOnError(f, fsys) ==
    LET u == Unlink(fsys, f.tmp)
        g == [f EXCEPT !.tmp = NoPath]
    IN IF f.exc # "none" THEN To(AfterWith(g), fsys)
       ELSE IF u.err = "none" THEN To(AfterWith(g), u.fs)
       ELSE To(Finish(g, u.err), fsys)

\* the with-block's exit: the temporary file is closed, which deletes it
WExit(f, fsys) ==
    LET u == Unlink(fsys, f.tmp)
        g == [f EXCEPT !.tmp = NoPath]
    IN IF u.err = "none" THEN To(AfterWith(g), u.fs)
       ELSE To(Finish(g, u.err), fsys)

-----------------------------------------------------------------------------
(* CopyFile.run *)

CpAssert(f, fsys) ==
    LET g == [f EXCEPT !.dst = Join(opt.dest_dir, f.dst_path)]
    IN IF Exists(fsys, f.tmp) THEN To([g EXCEPT !.pc = "cp_exists"], fsys)
       ELSE To(Raise(g, "AssertionError"), fsys)

\* a faulty variant of CpExists: the link at the destination is removed before the
\* overwrite flag is looked at
CpExistsUnlinksFirst(f, fsys) ==
    IF Exists(fsys, f.dst)
    THEN LET g == IF IsSymlink(fsys, f.dst) THEN Del(fsys, f.dst) ELSE fsys
         IN IF opt.overwrite THEN To([f EXCEPT !.pc = "cp_islink"], g)
            ELSE To(Return(f, "SKIP"), g)
    ELSE To([f EXCEPT !.pc = "cp_copy"], fsys)

CpExists(f, fsys) ==
    IF Exists(fsys, f.dst)
    THEN IF opt.overwrite THEN To([f EXCEPT !.pc = "cp_islink"], fsys)
         ELSE To(Return(f, "SKIP"), fsys)
    ELSE To([f EXCEPT !.pc = "cp_copy"], fsys)

CpIsLink(f, fsys) ==
    IF IsSymlink(fsys, f.dst) THEN To([f EXCEPT !.pc = "cp_unlink"], fsys)
    ELSE To([f EXCEPT !.pc = "cp_isfile"], fsys)

CpIsFile(f, fsys) ==
    IF IsFile(fsys, f.dst) THEN To([f EXCEPT !.pc = "cp_copy"], fsys)
    ELSE To(Return(f, "SKIP"), fsys)

CpUnlink(f, fsys) ==
    LET u == Unlink(fsys, f.dst)
    IN IF u.err = "none" THEN To([f EXCEPT !.pc = "cp_copy"], u.fs)
       ELSE To(Raise(f, u.err), fsys)

CpCopy(f, fsys) ==
    LET u == ShutilCopy(fsys, f.tmp, f.dst)
    IN IF u.err = "none"
       THEN To(Return([f EXCEPT !.placed = @ \cup {[name |-> f.name, dst |-> f.dst]}],
                      "SUCCESS"), u.fs)
       ELSE To(Raise(f, u.err), fsys)

-----------------------------------------------------------------------------
(* Zsh.run before its two with-blocks *)

ZshCompletions == Join(opt.dest_dir, <<".zsh-completions">>)

ZCExists(f, fsys) ==
    IF ~Exists(fsys, ZshCompletions) THEN To([f EXCEPT !.pc = "z_clone"], fsys)
    ELSE To(Block(f, ".zshrc"), fsys)

ZClone(f, fsys) ==
    LET u == CloneFrom(fsys, ZshCompletions, env.net)
    IN IF u.err = "none" THEN To(Block(f, ".zshrc"), u.fs)
       ELSE To(Raise(f, u.err), fsys)

-----------------------------------------------------------------------------
(* Vim.run before its with-block *)

DotVim == Join(Join(opt.dest_dir, <<".vim">>), <<"autoload">>)
PlugVim == Join(DotVim, <<"plug.vim">>)

VDExists(f, fsys) ==
    IF ~Exists(fsys, DotVim) THEN To([f EXCEPT !.pc = "v_mkdir"], fsys)
    ELSE To([f EXCEPT !.pc = "v_pexists"], fsys)

VMkdir(f, fsys) ==
    LET u == MkdirParents(fsys, DotVim)
    IN IF u.err = "none" THEN To([f EXCEPT !.pc = "v_pexists"], u.fs)
       ELSE To(Raise(f, u.err), fsys)

VPExists(f, fsys) ==
    IF ~Exists(fsys, PlugVim) \/ opt.overwrite THEN To([f EXCEPT !.pc = "v_get"], fsys)
    ELSE To(Block(f, ".vimrc"), fsys)

\* requests.get(...); assert response.status_code == 200
VGet(f, fsys) ==
    CASE env.net = "ok" -> To([f EXCEPT !.pc = "v_open"], fsys)
      [] env.net = "down" -> To(Raise(f, "ConnectionError"), fsys)
      [] OTHER -> To(Raise(f, "AssertionError"), fsys)

\* with open(plug_vim, "w") as f_plug: f_plug.write(response.text)
VOpen(f, fsys) ==
    LET u == WriteFile(fsys, PlugVim, PlugVimText)
    IN IF u.err = "none" THEN To(Block(f, ".vimrc"), u.fs)
       ELSE To(Raise(f, u.err), fsys)

-----------------------------------------------------------------------------
(* One step of the run() in slot s, and a run to completion *)

StepOf(s, f, fsys) ==
    CASE f.pc = "checks" -> Checks(f, fsys)
      [] f.pc = "sl_assert" -> SlAssert(f, fsys)
      [] f.pc = "sl_exists" -> SlExists(f, fsys)
      [] f.pc = "sl_islink" -> SlIsLink(f, fsys)
      [] f.pc = "sl_unlink" -> SlUnlink(f, fsys)
      [] f.pc = "sl_link" -> SlLink(f, fsys)
      [] f.pc = "w_tmp" -> WTmp(s, f, fsys)
      [] f.pc = "w_assert" -> WAssert(f, fsys)
      [] f.pc = "w_write" -> WWrite(f, fsys)
      [] f.pc = "w_exit" -> WExit(f, fsys)
      [] f.pc = "cp_assert" -> CpAssert(f, fsys)
      [] f.pc = "cp_exists" -> CpExists(f, fsys)
      [] f.pc = "cp_islink" -> CpIsLink(f, fsys)
      [] f.pc = "cp_isfile" -> CpIsFile(f, fsys)
      [] f.pc = "cp_unlink" -> CpUnlink(f, fsys)
      [] f.pc = "cp_copy" -> CpCopy(f, fsys)
      [] f.pc = "z_cexists" -> ZCExists(f, fsys)
      [] f.pc = "z_clone" -> ZClone(f, fsys)
      [] f.pc = "v_dexists" -> VDExists(f, fsys)
      [] f.pc = "v_mkdir" -> VMkdir(f, fsys)
      [] f.pc = "v_pexists" -> VPExists(f, fsys)
      [] f.pc = "v_get" -> VGet(f, fsys)
      [] f.pc = "v_open" -> VOpen(f, fsys)

RECURSIVE RunFrame(_, _, _)
RunFrame(s, f, fsys) ==
    IF ~Running(f) THEN To(f, fsys)
    ELSE LET n == StepOf(s, f, fsys) IN RunFrame(s, n.f, n.fs)

\* inst.run() from start to end on fsys, uninterrupted
Run(s, inst, fsys) == RunFrame(s, NewFrame(inst, fsys), fsys)

-----------------------------------------------------------------------------
(* The sessions' starting states *)

Slots == {1, 2}

\* destination directories: an absolute one, the current directory, a
\* relative one of two components
DestDirs == {<<"/", "home", "user">>, <<>>, <<"a", "b">>}

OldFile == File(<<"old content">>)
EmptyFile == File(<<>>)

\* dest_dir / name for every file the installers of ss place
PrimaryPaths(dest, ss) ==
    {Join(dest, <<n>>) : n \in UNION {ResourcesOf(i) : i \in ss}}

\* the paths files are written at: those, the paths CopyFile.run computes
\* for the wrapper files, and plug.vim
LeafPaths(dest, ss) ==
    PrimaryPaths(dest, ss)
    \cup {Join(dest, Join(dest, <<n>>)) : n \in UNION {WrapperFiles(i) : i \in ss}}
    \cup (IF "vim" \in ss THEN {dest \o <<".vim", "autoload", "plug.vim">>} ELSE {})

\* the paths directories are made at
DirPaths(dest, ss) ==
    (IF "zsh" \in ss THEN {dest \o <<".zsh-completions">>} ELSE {})
    \cup (IF "vim" \in ss THEN {dest \o <<".vim">>, dest \o <<".vim", "autoload">>} ELSE {})

\* what may already be at a path: a file, an empty file, a directory, a link
\* to a file, to a directory, to nothing, or to another placed file's path
LeafEntries(dest, ss, p) ==
    {OldFile, EmptyFile, Dir}
    \cup {Link(t) : t \in ({ExtFile, ExtMissing, ExtDir} \cup PrimaryPaths(dest, ss)) \ {p}}

Candidates(dest, ss) ==
    {[path |-> p, entry |-> e] : p \in DirPaths(dest, ss), e \in {Dir, OldFile}}
    \cup UNION {{[path |-> p, entry |-> e] : e \in LeafEntries(dest, ss, p)} :
                p \in LeafPaths(dest, ss)}

RECURSIVE SetsUpTo(_, _)
SetsUpTo(C, k) ==
    IF k = 0 THEN {{}}
    ELSE LET prev == SetsUpTo(C, k - 1)
         IN prev \cup {S \cup {c} : S \in prev, c \in C}

\* one entry per path, and nothing below a path that is no directory
Consistent(pre) ==
    \A c, d \in pre :
        /\ c.path = d.path => c = d
        /\ c.path \in ProperPrefixes(d.path) => c.entry = Dir

PreSets(dest, ss, k) == {pre \in SetsUpTo(Candidates(dest, ss), k) : Consistent(pre)}

BaseDirs(dest) ==
    Prefixes(RESOURCES_PATH) \cup Prefixes(TmpDir) \cup Prefixes(ExtDir) \cup Prefixes(dest)

AllResources == UNION {ResourcesOf(i) : i \in Installers}

\* the filesystem with the resources but those of miss, and pre in the
\* destination directory
InitFS(dest, miss, pre) ==
    LET files == {Resource(n) : n \in AllResources \ miss} \cup {ExtFile}
        prepaths == {c.path : c \in pre}
        dirs == BaseDirs(dest) \cup UNION {ProperPrefixes(c.path) : c \in pre}
    IN [p \in dirs \cup files \cup prepaths |->
            IF p \in prepaths THEN (CHOOSE c \in pre : c.path = p).entry
            ELSE IF p \in files THEN File(<<"content of", Basename(p)>>)
            ELSE Dir]

NetStates(ss) ==
    IF "vim" \in ss THEN {"ok", "down", "http404"}
    ELSE IF "zsh" \in ss THEN {"ok", "down"}
    ELSE {"ok"}

ProgStates(ss) ==
    IF UNION {Needs(i) : i \in ss} = {} THEN {AllPrograms} ELSE {AllPrograms, {}}

\* the order the concurrent sessions list two installers in
Rank(inst) ==
    CASE inst = "tmux" -> 1 [] inst = "vimperator" -> 2 [] inst = "gdb" -> 3
      [] inst = "fvwm2" -> 4 [] inst = "git" -> 5 [] inst = "zsh" -> 6
      [] inst = "vim" -> 7 [] inst = "command-line helper" -> 8

InitWith(ss, k, started, nets, progsets, misses) ==
    /\ opt \in [dest_dir : DestDirs, overwrite : BOOLEAN]
    /\ env \in [net : nets, progs : progsets]
    /\ sess = ss
    /\ \E miss \in misses :
         \E pre \in PreSets(opt.dest_dir, {ss[i] : i \in DOMAIN ss}, k) :
            fs = InitFS(opt.dest_dir, miss, pre)
    /\ fs0 = fs
    /\ procs = [s \in Slots |->
                    IF started /\ s \in DOMAIN ss THEN NewFrame(ss[s], fs) ELSE IdleFrame]
    /\ log = <<>>

-----------------------------------------------------------------------------
(* The sequential session: one installer, run() called up to MaxRuns times *)

\* any network state, programs installed or not, any of its resources missing
Init ==
    \E i \in Installers :
        InitWith(<<i>>, MaxPre, FALSE, NetStates({i}), ProgStates({i}),
                 SUBSET ResourcesOf(i))

LogEntry(f, fsys) ==
    [inst |-> f.inst, out |-> f.out, before |-> f.before, after |-> fsys,
     placed |-> f.placed, warn |-> f.warn]

Start ==
    /\ Len(sess) = 1
    /\ ~Running(procs[1])
    /\ Len(log) < MaxRuns
    /\ procs' = [procs EXCEPT ![1] = NewFrame(sess[1], fs)]
    /\ UNCHANGED <<fs, opt, env, sess, log, fs0>>

StepSlot(s) ==
    /\ Running(procs[s])
    /\ LET n == StepOf(s, procs[s], fs)
       IN /\ fs' = n.fs
          /\ procs' = [procs EXCEPT ![s] = n.f]
          /\ log' = IF n.f.pc = "done" THEN Append(log, LogEntry(n.f, n.fs)) ELSE log
    /\ UNCHANGED <<opt, env, sess, fs0>>

Step == StepSlot(1)

Next == Start \/ Step

Spec == Init /\ [][Next]_vars

-----------------------------------------------------------------------------
(* The concurrent session: two distinct installers, their steps interleaved, *)
(* with the resources bundled, the network up and the programs installed     *)

InitConc ==
    \E i, j \in Installers :
        /\ Rank(i) < Rank(j)
        /\ InitWith(<<i, j>>, MaxPreConc, TRUE, {"ok"}, {AllPrograms}, {{}})

StepFirst == StepSlot(1)
StepSecond == StepSlot(2)

NextConc == StepFirst \/ StepSecond

SpecConc == InitConc /\ [][NextConc]_vars

-----------------------------------------------------------------------------
(* Vocabulary of the properties *)

\* dest_dir / name
Dest(name) == Join(opt.dest_dir, <<name>>)

\* the path CopyFile.run computes for a wrapper file: dest_dir / (dest_dir / name)
CopyDst(name) == Join(opt.dest_dir, Join(opt.dest_dir, <<name>>))

UnderDest(p) ==
    /\ Len(p) > Len(opt.dest_dir)
    /\ SubSeq(p, 1, Len(opt.dest_dir)) = opt.dest_dir
    /\ (opt.dest_dir = <<>> => p[1] \notin {"/", "?"})

\* the destination directory's content
DestTree(fsys) == [p \in {q \in DOMAIN fsys : UnderDest(q)} |-> fsys[p]]

EmptyDest(fsys) == \A p \in DOMAIN fsys : ~UnderDest(p)

ResourcesPresent(fsys, inst) == \A n \in ResourcesOf(inst) : Exists(fsys, Resource(n))

DockerBuildx == Join(opt.dest_dir, <<".docker", "cli-plugins", "docker-buildx">>)

CopyPcs == {"cp_exists", "cp_islink", "cp_isfile", "cp_unlink", "cp_copy"}

AllDone == \A s \in Slots : procs[s].pc = "done"

-----------------------------------------------------------------------------
(* C1 *)

C1_Case ==
    /\ sess[1] \in SymlinkTools
    /\ ~opt.overwrite
    /\ EmptyDest(fs0)
    /\ ResourcesPresent(fs0, sess[1])

\* C1: a simple symlink installer with overwrite=false, whose bundled resource
\* exists, run on an empty destination directory: the first run returns
\* SUCCESS and leaves at dest_dir/<filename> a symlink to the resource, which
\* is a non-empty file; the run right after it returns SKIP and leaves the
\* filesystem as the first run left it.
C1_FirstRunLinksSecondRunSkips ==
    C1_Case =>
        LET d == Dest(SymlinkFile(sess[1])) IN
        /\ Len(log) >= 1 =>
              /\ log[1].out = "SUCCESS"
              /\ LExists(log[1].after, d)
              /\ log[1].after[d] = Link(Resource(SymlinkFile(sess[1])))
              /\ NonEmptyFile(log[1].after, d)
        /\ Len(log) >= 2 =>
              /\ log[2].out = "SKIP"
              /\ log[2].before = log[1].after
              /\ log[2].after = log[1].after

C1_Witness ==
    /\ C1_Case
    /\ Len(log) = 2
    /\ log[1].out = "SUCCESS"
    /\ log[2].out = "SKIP"

-----------------------------------------------------------------------------
(* C2 *)

C2_Case ==
    /\ opt.overwrite
    /\ EmptyDest(fs0)
    /\ ResourcesPresent(fs0, sess[1])
    /\ env.net = "ok"

\* C2: any installer with overwrite=true, started on an empty destination
\* directory with its resources bundled and the network up: every run of a
\* sequence of runs returns SUCCESS, and after each run every file the
\* installer places is a non-empty file at dest_dir/<name>.
C2_OverwriteRunsAlwaysSucceed ==
    C2_Case =>
        \A k \in DOMAIN log :
            /\ log[k].out = "SUCCESS"
            /\ \A n \in ResourcesOf(log[k].inst) : NonEmptyFile(log[k].after, Dest(n))

-----------------------------------------------------------------------------
(* C3 *)

\* C3: SymLink.run with overwrite=false and the resource present, when any
\* entry (file, directory, link with or without a target) is at
\* dest_dir/filename, returns SKIP and changes nothing.
C3_NoOverwriteSkipsEveryEntry ==
    \A k \in DOMAIN log :
        ( /\ log[k].inst \in SymlinkTools
          /\ ~opt.overwrite
          /\ ResourcesPresent(log[k].before, log[k].inst)
          /\ LExists(log[k].before, Dest(SymlinkFile(log[k].inst))) )
        => /\ log[k].out = "SKIP"
           /\ log[k].after = log[k].before

-----------------------------------------------------------------------------
(* C6 *)

\* C6: CommandLineHelper.run with overwrite=true on an empty destination
\* directory returns SUCCESS, on the second run too, and
\* dest_dir/.docker/cli-plugins/docker-buildx is a file of size > 0.
C6_HelperInstallsDockerBuildx ==
    (sess[1] = "command-line helper" /\ opt.overwrite /\ EmptyDest(fs0)) =>
        \A k \in DOMAIN log :
            /\ log[k].out = "SUCCESS"
            /\ NonEmptyFile(log[k].after, DockerBuildx)

-----------------------------------------------------------------------------
(* C10 *)

\* C10: for every dest_dir, absolute or relative, the path CopyFile.run
\* works on for a wrapper file is dest_dir/<name>.
C10_CopyFileWorksOnDestName ==
    \A s \in Slots :
        procs[s].pc \in CopyPcs => procs[s].dst = Dest(procs[s].name)

-----------------------------------------------------------------------------
(* C4 *)

GitData == Wrapper(".gitconfig", Resource(".gitconfig"))

\* C4: CopyFile.run with an existing source (Git.run's one call of it, the
\* destination's directory being there): destination absent -> the source's
\* content is at the destination, SUCCESS; destination exists and
\* overwrite=false -> SKIP, nothing changed; overwrite=true and the
\* destination a symlink -> the link is gone, the content is in a regular
\* file at the destination path itself and nowhere else, SUCCESS;
\* overwrite=true and a regular file -> its content replaced, SUCCESS;
\* overwrite=true and a directory -> SKIP, nothing changed.
C4_CopyFileDecidesByDestination ==
    \A k \in DOMAIN log :
        LET b == log[k].before
            a == log[k].after
            d == CopyDst(".gitconfig")
            copied == log[k].out = "SUCCESS" /\ a = Put(b, d, File(GitData))
            skipped == log[k].out = "SKIP" /\ a = b
        IN ( /\ log[k].inst = "git"
             /\ ResourcesPresent(b, "git")
             /\ ParentIsDir(b, d) )
           => /\ ~LExists(b, d) => copied
              /\ (Exists(b, d) /\ ~opt.overwrite) => skipped
              /\ (opt.overwrite /\ IsSymlink(b, d)) => copied
              /\ (opt.overwrite /\ LExists(b, d) /\ b[d].kind = "file") => copied
              /\ (opt.overwrite /\ LExists(b, d) /\ b[d].kind = "dir") => skipped

-----------------------------------------------------------------------------
(* C5 *)

\* C5 as claimed: after a run of Zsh.run that returns SUCCESS or SKIP,
\* dest_dir/.zshrc and dest_dir/.zshenv are non-empty files, whatever the
\* overwrite flag and whatever was in the destination directory.
C5_ZshLeavesBothFiles ==
    \A k \in DOMAIN log :
        (log[k].inst = "zsh" /\ log[k].out \in {"SUCCESS", "SKIP"})
        => \A n \in {".zshrc", ".zshenv"} : NonEmptyFile(log[k].after, Dest(n))

\* C5 as amended: after a run of Zsh.run that returns SUCCESS, both wrapper
\* files are non-empty files at the paths CopyFile.run writes them to, which
\* are dest_dir/.zshrc and dest_dir/.zshenv when dest_dir is absolute or the
\* current directory.
C5_ZshSuccessLeavesBothFiles ==
    \A k \in DOMAIN log :
        (log[k].inst = "zsh" /\ log[k].out = "SUCCESS")
        => \A n \in {".zshrc", ".zshenv"} :
              /\ NonEmptyFile(log[k].after, CopyDst(n))
              /\ (opt.dest_dir = <<>> \/ IsAbsolute(opt.dest_dir))
                     => NonEmptyFile(log[k].after, Dest(n))

\* Zsh.run has returned SUCCESS where one of the two files was there before
C5_Witness ==
    /\ Len(log) >= 1
    /\ log[1].inst = "zsh"
    /\ log[1].out = "SUCCESS"
    /\ \E n \in {".zshrc", ".zshenv"} : LExists(fs0, CopyDst(n))

-----------------------------------------------------------------------------
(* C7 *)

\* C7: a temporary file of Git.run, Zsh.run or Vim.run is there only while
\* the with-block that made it is running: once run() has ended, by SUCCESS,
\* by SKIP (Zsh.run's early return too) or by an exception, it is gone.
C7_NoTemporaryFileSurvives ==
    \A s \in Slots :
        LExists(fs, TmpPath(s)) => (Running(procs[s]) /\ procs[s].tmp = TmpPath(s))

\* a run of Git.run has ended by an exception raised inside the with-block
C7_Witness ==
    /\ procs[1].pc = "done"
    /\ procs[1].inst = "git"
    /\ procs[1].out \in {"AssertionError", "FileNotFoundError"}
    /\ ~LExists(fs, TmpPath(1))

-----------------------------------------------------------------------------
(* C9 *)

\* C9 as claimed: a run that returns SKIP leaves the destination directory
\* tree as it found it, for every installer.
C9_SkipChangesNothing ==
    \A k \in DOMAIN log :
        log[k].out = "SKIP" => DestTree(log[k].after) = DestTree(log[k].before)

\* what Vim.run and Zsh.run make before the copy that may be skipped
MadeBeforeSkip(inst, b) ==
    CASE inst = "vim" -> Prefixes(PlugVim) \cup {Real(b, PlugVim)}
      [] inst = "zsh" -> Prefixes(Join(ZshCompletions, <<".git">>))
                         \cup {CopyDst(".zshrc"), Real(b, CopyDst(".zshrc"))}
      [] OTHER -> {}

\* C9 as amended: a run that returns SKIP leaves the filesystem as it found
\* it, but for what Vim.run (.vim/autoload and plug.vim in it) and Zsh.run
\* (.zsh-completions and the .zshrc wrapper) make before the copy that is
\* skipped; the installers with one placement call change nothing at all.
C9_SkipChangesOnlyEarlierSteps ==
    \A k \in DOMAIN log :
        log[k].out = "SKIP" =>
            LET b == log[k].before
                a == log[k].after
            IN \A p \in (DOMAIN a) \cup (DOMAIN b) :
                  p \notin MadeBeforeSkip(log[k].inst, b)
                  => (p \in DOMAIN a /\ p \in DOMAIN b /\ a[p] = b[p])

\* Git.run has returned SKIP where something was at .gitconfig
C9_Witness ==
    /\ Len(log) >= 1
    /\ log[1].inst = "git"
    /\ log[1].out = "SKIP"
    /\ IsSymlink(log[1].before, CopyDst(".gitconfig"))

-----------------------------------------------------------------------------
(* C8 *)

\* both installers run one after the other from the session's start, the
\* one in slot s first
Sequential(s) ==
    LET t == IF s = 1 THEN 2 ELSE 1
        x == Run(s, sess[s], fs0)
        y == Run(t, sess[t], x.fs)
    IN [out |-> [u \in Slots |-> IF u = s THEN x.f.out ELSE y.f.out],
        tree |-> DestTree(y.fs)]

Interleaved ==
    [out |-> [u \in Slots |-> procs[u].out], tree |-> DestTree(fs)]

\* C8 as claimed: whatever the destination directory holds, every
\* interleaving of the filesystem steps of two distinct installers ends
\* with the outcomes and the destination directory of running them one
\* after the other, in either order.
C8_InterleavingIsSequential ==
    AllDone => (Interleaved = Sequential(1) /\ Interleaved = Sequential(2))

\* the paths run() checks or writes under the destination directory
Touches(inst) ==
    CASE inst \in SymlinkTools -> {Dest(SymlinkFile(inst))}
      [] inst = "git" -> {CopyDst(".gitconfig")}
      [] inst = "zsh" -> {ZshCompletions, Join(ZshCompletions, <<".git">>),
                          CopyDst(".zshrc"), CopyDst(".zshenv")}
      [] inst = "vim" -> {Parent(DotVim), DotVim, PlugVim, CopyDst(".vimrc")}
      [] OTHER -> {}

\* p and the paths the symbolic links at p lead to
RECURSIVE Chain(_, _, _)
Chain(fsys, p, n) ==
    IF IsSymlink(fsys, p) /\ n > 0 THEN {p} \cup Chain(fsys, fsys[p].to, n - 1)
    ELSE {p}

Reaches(inst, fsys) == UNION {Chain(fsys, p, MaxLinks + 1) : p \in Touches(inst)}

\* no path one installer reaches is a path the other reaches, or lies below one
Apart(i, j, fsys) ==
    \A p \in Reaches(i, fsys), q \in Reaches(j, fsys) :
        p \notin Prefixes(q) /\ q \notin Prefixes(p)

\* C8 as amended: for two distinct installers whose paths stay apart (no
\* path one of them checks or writes, dest_dir / (dest_dir / name) for a
\* wrapper file, nor a path a symbolic link there leads to, is a path of the
\* other or lies below one), every interleaving of their filesystem steps
\* ends with the outcomes and the destination directory of running them one
\* after the other, in either order.
C8_InterleavingIsSequentialWhenApart ==
    (AllDone /\ Apart(sess[1], sess[2], fs0))
    => (Interleaved = Sequential(1) /\ Interleaved = Sequential(2))

\* two installers that both placed a file, the second ending first, in a
\* destination directory that held a symbolic link
C8_Witness ==
    /\ AllDone
    /\ Apart(sess[1], sess[2], fs0)
    /\ procs[1].placed # {} /\ procs[2].placed # {}
    /\ log[1].inst = sess[2]
    /\ \E p \in DOMAIN fs0 : UnderDest(p) /\ fs0[p].kind = "link"

====
